---- MODULE Spec2Model ----
(***************************************************************************)
(* Model of the ComfyUI packaging pipeline:                                *)
(*   workflow_parser.py          WorkflowParser (path index, registry,     *)
(*                               graph scanner, resolver)                  *)
(*   package_creator_windows.py  create_package (assembler)                *)
(*   model_downloader.py         download_model (asset fetcher)            *)
(*                                                                         *)
(* Text is modelled as a sequence of atoms (Str): an atom is a run of      *)
(* characters that no keyword, separator or extension of the code cuts in  *)
(* two, so that Python's substring, endswith, lower and the os.path        *)
(* functions are computed on the sequence as the code computes them on     *)
(* the characters.  A file-system path (Path) is a sequence of components, *)
(* each component a Str.                                                   *)
(***************************************************************************)
EXTENDS Integers, Sequences, FiniteSets, TLC

VARIABLES
    os_name,          \* os.name of the platform: "posix" or "nt"
    fs,               \* the files on disk: a set of Paths
    model_paths,      \* WorkflowParser.model_paths (the PathIndex)
    rq,               \* SpecResolve: the (kind, name) given to _resolve_model_path
    rres,             \* SpecResolve: what _resolve_model_path returned
    workflow,         \* the workflow document at workflow_path
    packages,         \* the extensions directory: sequence of packages, in os.listdir order
    result,           \* what parse_workflow returned
    pc,               \* create_package: position in the function
    todo,             \* create_package: (kind, name, path) entries still to process
    sizes,            \* os.path.getsize of every file on disk
    dest_tree,        \* create_package: files copied into the package directory
    external_models,  \* create_package: the external_models list
    log,              \* create_package: the per-model messages printed so far
    config_written,   \* create_package: config.json has been written
    zip_written,      \* create_package: the zip archive has been written
    retval,           \* create_package: the outcome seen by main()
    expected_hash,    \* download_model: the asset's recorded hash (<<>>: none)
    requests_loaded,  \* download_model: 'requests' in sys.modules
    served,           \* the chunks the server delivers for the asset's url
    dest_file,        \* the file at dest_path
    dest_file0,       \* the file at dest_path when download_model was called
    temp,             \* the file at temp_file
    fpc,              \* download_model: position in the function
    net_requests,     \* number of requests sent to the network
    success,          \* download_model: what the transport returned
    fresult,          \* what download_model returned
    fetcher,          \* which fetcher runs: model_downloader.py or download_models.py
    asset_url,              \* the asset's url, as a sequence of text atoms
    api_key,          \* what get_civitai_api_key() returns (None: no key)
    same_volume,      \* tempfile.mkdtemp() is on the file system of dest_path
    sent,             \* the requests sent: host and Authorization header
    fmsgs,            \* the messages the fetcher has printed
    config,           \* download_models_from_config: the config file
    mpc,              \* download_models_from_config: position in the function
    mi,               \* download_models_from_config: index of the current model
    success_count,    \* download_models_from_config: success_count
    failure_count,    \* download_models_from_config: failure_count
    processed,        \* the indices of the models the loop body has run for
    mret,             \* what download_models_from_config returned
    yaml_data,        \* the content of extra_model_paths.yaml
    loaded            \* _load_model_paths has returned

envVars     == <<os_name, fs, model_paths>>
resolveVars == <<rq, rres>>
parseVars   == <<workflow, packages, result>>
packageVars == <<pc, todo, sizes, dest_tree, external_models, log,
                 config_written, zip_written, retval>>
fetchVars   == <<expected_hash, requests_loaded, served, dest_file, dest_file0, temp, fpc,
                 net_requests, success, fresult, fetcher, asset_url, api_key, same_volume,
                 sent, fmsgs>>
manifestVars == <<config, mpc, mi, success_count, failure_count, processed, mret>>
loadVars    == <<yaml_data, loaded>>
vars        == <<os_name, fs, model_paths, rq, rres, workflow, packages, result,
                 pc, todo, sizes, dest_tree, external_models, log,
                 config_written, zip_written, retval,
                 expected_hash, requests_loaded, served, dest_file, dest_file0, temp, fpc,
                 net_requests, success, fresult, fetcher, asset_url, api_key, same_volume,
                 sent, fmsgs,
                 config, mpc, mi, success_count, failure_count, processed, mret,
                 yaml_data, loaded>>

\* A path that is no path: what the model holds where Python holds None
None == <<>>

----------------------------------------------------------------------------
(* Python str and os.path on sequences of atoms                             *)

Range(s) == {s[i] : i \in DOMAIN s}

\* str.lower(), atom by atom
LowerAtom(a) ==
    CASE a = "A"    -> "a"
      [] a = "B"    -> "b"
      [] a = "AB"   -> "ab"
      [] a = "LLM"  -> "llm"
      [] a = "VAE"  -> "vae"
      [] a = "CLIP" -> "clip"
      [] a = "Checkpoint" -> "checkpoint"
      [] a = "Load" -> "load"
      [] a = "Lora" -> "lora"
      [] a = "Simple" -> "simple"
      [] a = "Stack" -> "stack"
      [] OTHER      -> a

Lower(s) == [i \in DOMAIN s |-> LowerAtom(s[i])]

\* Python `k in s` on strings
IsSubstring(k, s) ==
    \E i \in 0..(Len(s) - Len(k)) : SubSeq(s, i + 1, i + Len(k)) = k

\* os.sep, and the characters os.path splits a path at
OsSep(os) == IF os = "nt" THEN "\\" ELSE "/"
Seps(os)  == IF os = "nt" THEN {"/", "\\"} ELSE {"/"}

LastSepIndex(s, os) ==
    LET I == {i \in DOMAIN s : s[i] \in Seps(os)}
    IN  IF I = {} THEN 0 ELSE CHOOSE i \in I : \A j \in I : j <= i

\* os.path.basename
Basename(s, os) == SubSeq(s, LastSepIndex(s, os) + 1, Len(s))

RECURSIVE RStripSeps(_, _)
RStripSeps(s, os) ==
    IF s # <<>> /\ s[Len(s)] \in Seps(os)
    THEN RStripSeps(SubSeq(s, 1, Len(s) - 1), os) ELSE s

\* os.path.dirname: the head up to the last separator, trailing separators
\* stripped unless the head is nothing but separators
Dirname(s, os) ==
    LET head == SubSeq(s, 1, LastSepIndex(s, os))
    IN  IF Range(head) \subseteq Seps(os) THEN head ELSE RStripSeps(head, os)

\* The components the platform sees in a relative path string
RECURSIVE SplitFrom(_, _, _, _)
SplitFrom(s, os, i, cur) ==
    LET done == IF cur = <<>> THEN <<>> ELSE <<cur>>
    IN  IF i > Len(s) THEN done
        ELSE IF s[i] \in Seps(os) THEN done \o SplitFrom(s, os, i + 1, <<>>)
        ELSE SplitFrom(s, os, i + 1, Append(cur, s[i]))

Components(s, os) == SplitFrom(s, os, 1, <<>>)

\* os.path.join(base, name) for a relative name
Join(base, s, os) == base \o Components(s, os)

IsPrefix(p, q) == Len(p) <= Len(q) /\ SubSeq(q, 1, Len(p)) = p

\* The key under which the file system compares paths: NTFS folds case
FsKey(p, os) == IF os = "nt" THEN [i \in DOMAIN p |-> Lower(p[i])] ELSE p

\* os.path.exists: a file, or a directory holding one
Exists(p, files, os) ==
    \E f \in files : IsPrefix(FsKey(p, os), FsKey(f, os))

----------------------------------------------------------------------------
(* WorkflowParser._load_model_paths                                         *)

\* The kinds of the default layout, in the order the dict literal lists them
KnownKinds ==
    << "checkpoints", "vae", "loras", "embeddings", "controlnet", "clip",
       "clip_vision", "upscale_models", "facerestore_models", "insightface",
       "ultralytics", "unet", "diffusion_models", "text_encoders", "LLM",
       "configs", "vae_approx", "sams", "gligen", "hypernetworks" >>

\* os.path.join(self.comfyui_path, "models", kind), relative to comfyui_path
DefaultRoot(k) == << <<"models">>, <<k>> >>

DefaultModelPaths ==
    [order |-> KnownKinds,
     roots |-> [k \in Range(KnownKinds) |-> << DefaultRoot(k) >>]]

\* One (model_type, rel_path) item of a block, base_path being a string:
\* every line of rel_path is joined to base_path and appended to the list
\* of the lower-cased model_type.
\* (mutant) the list of the key is replaced by the overlay's last path
RECURSIVE AppendPaths_Replacing(_, _, _, _, _)
AppendPaths_Replacing(mp, key, base, paths, os) ==
    IF paths = <<>> THEN mp
    ELSE LET full == Join(Components(base, os), paths[1], os)
             mp2  == [order |-> IF key \in DOMAIN mp.roots THEN mp.order
                                ELSE Append(mp.order, key),
                      roots |-> [k \in DOMAIN mp.roots \cup {key} |->
                                    IF k = key THEN <<full>> ELSE mp.roots[k]]]
         IN  AppendPaths_Replacing(mp2, key, base, Tail(paths), os)

RECURSIVE AppendPaths(_, _, _, _, _)
AppendPaths(mp, key, base, paths, os) ==
    IF paths = <<>> THEN mp
    ELSE LET full == Join(Components(base, os), paths[1], os)
             old  == IF key \in DOMAIN mp.roots THEN mp.roots[key] ELSE <<>>
             mp2  == [order |-> IF key \in DOMAIN mp.roots THEN mp.order
                                ELSE Append(mp.order, key),
                      roots |-> [k \in DOMAIN mp.roots \cup {key} |->
                                    IF k = key THEN Append(old, full)
                                    ELSE mp.roots[k]]]
         IN  AppendPaths(mp2, key, base, Tail(paths), os)

\* paths = the non-blank lines of a multi-line value, or the value itself
PathsOf(lines) ==
    IF Len(lines) > 1 THEN SelectSeq(lines, LAMBDA p : p # <<>>) ELSE lines

\* The items of one block, in order.  os.path.join(base_path, path) raises
\* TypeError when base_path is not a string, and model_type.lower() raises
\* AttributeError when the key is not a string: the walk stops there, with
\* what was appended so far.
RECURSIVE LoadItems(_, _, _, _)
LoadItems(mp, b, items, os) ==
    IF items = <<>> THEN [mp |-> mp, raised |-> FALSE]
    ELSE LET it == items[1]
         IN  IF it.model_type \in {"base_path", "is_default"} \/ ~it.is_str
                \/ PathsOf(it.rel_path) = <<>>
             THEN LoadItems(mp, b, Tail(items), os)
             ELSE IF ~b.base_is_str \/ ~it.key_is_str
             THEN [mp |-> mp, raised |-> TRUE]
             ELSE LoadItems(AppendPaths(mp, LowerAtom(it.model_type), b.base_path,
                                        PathsOf(it.rel_path), os),
                            b, Tail(items), os)

RECURSIVE LoadBlocks(_, _, _)
LoadBlocks(mp, blocks, os) ==
    IF blocks = <<>> THEN mp
    ELSE LET b == blocks[1]
         IN  IF ~b.is_dict \/ ~b.has_base
             THEN LoadBlocks(mp, Tail(blocks), os)
             ELSE LET r == LoadItems(mp, b, b.items, os)
                  IN  IF r.raised THEN r.mp ELSE LoadBlocks(r.mp, Tail(blocks), os)

\* overlay.state: "absent" (no extra_model_paths.yaml), "unreadable"
\* (yaml.safe_load raises), "empty" (falsy document), "not_mapping" (a list
\* or a scalar: yaml_data.items() raises) or "blocks", the (ui_name,
\* ui_config) items of the document in overlay.blocks
_load_model_paths(overlay, os) ==
    IF overlay.state # "blocks" THEN DefaultModelPaths
    ELSE LoadBlocks(DefaultModelPaths, overlay.blocks, os)

----------------------------------------------------------------------------
(* WorkflowParser._resolve_model_path                                       *)

\* Steps 1 and 2, root by root: base/name, then base/basename(name) when the
\* name holds os.path.sep
RECURSIVE DirectSearch(_, _, _, _)
DirectSearch(roots, name, files, os) ==
    IF roots = <<>> THEN None
    ELSE LET model_path  == Join(roots[1], name, os)
             direct_path == Join(roots[1], Basename(name, os), os)
         IN  IF Exists(model_path, files, os) THEN model_path
             ELSE IF OsSep(os) \in Range(name) /\ Exists(direct_path, files, os)
                  THEN direct_path
             ELSE DirectSearch(Tail(roots), name, files, os)

\* The directories os.walk(base) visits, top-down.  Directories exist through
\* the files below them.
DirsUnder(base, files) ==
    {d \in UNION {{SubSeq(f, 1, n) : n \in 0..(Len(f) - 1)} : f \in files} :
        IsPrefix(base, d)}

ChildDirs(d, files) == {c \in DirsUnder(d, files) : Len(c) = Len(d) + 1}

RECURSIVE SeqOfSet(_)
SeqOfSet(S) ==
    IF S = {} THEN <<>>
    ELSE LET x == CHOOSE y \in S : TRUE IN <<x>> \o SeqOfSet(S \ {x})

RECURSIVE Walk(_, _)
RECURSIVE WalkAll(_, _)
Walk(d, files) == <<d>> \o WalkAll(SeqOfSet(ChildDirs(d, files)), files)
WalkAll(ds, files) ==
    IF ds = <<>> THEN <<>> ELSE Walk(ds[1], files) \o WalkAll(Tail(ds), files)

\* The `files` entry os.walk yields for directory d
FilesIn(d, files) == {f[Len(f)] : f \in {g \in files : Len(g) = Len(d) + 1 /\ IsPrefix(d, g)}}

\* One directory of the walk: exact file name, then (Windows) a name that
\* differs in case only
WalkHit(d, filename, files, os) ==
    IF filename \in FilesIn(d, files) THEN Append(d, filename)
    ELSE IF os = "nt" /\ \E x \in FilesIn(d, files) : Lower(x) = Lower(filename)
         THEN Append(d, CHOOSE x \in FilesIn(d, files) : Lower(x) = Lower(filename))
    ELSE None

RECURSIVE WalkDirsSearch(_, _, _, _)
WalkDirsSearch(dirs, filename, files, os) ==
    IF dirs = <<>> THEN None
    ELSE LET hit == WalkHit(dirs[1], filename, files, os)
         IN  IF hit # None THEN hit
             ELSE WalkDirsSearch(Tail(dirs), filename, files, os)

\* Step 3, root by root
RECURSIVE WalkSearch(_, _, _, _)
WalkSearch(roots, name, files, os) ==
    IF roots = <<>> THEN None
    ELSE LET dirs == IF DirsUnder(roots[1], files) = {} THEN <<>>
                     ELSE Walk(roots[1], files)
             hit  == WalkDirsSearch(dirs, Basename(name, os), files, os)
         IN  IF hit # None THEN hit
             ELSE WalkSearch(Tail(roots), name, files, os)

_resolve_model_path(mp, model_type, model_name, files, os) ==
    IF model_type \notin DOMAIN mp.roots THEN None
    ELSE LET direct == DirectSearch(mp.roots[model_type], model_name, files, os)
         IN  IF direct # None THEN direct
             ELSE WalkSearch(mp.roots[model_type], model_name, files, os)

----------------------------------------------------------------------------
(* WorkflowParser._get_custom_node_packages                                 *)

\* os.path.join(self.comfyui_path, "custom_nodes", node_package)
PackagePath(dir) == << <<"custom_nodes">>, dir >>

\* One package of the listing: its own lower-cased name, then every
\* identifier the patterns find in its .py files, all mapped to its path.
\* Later assignments to a key replace earlier ones.
RegisterPackage(reg, pkg) ==
    LET keys == {Lower(pkg.dir)} \cup {Lower(a) : a \in pkg.aliases}
    IN  [k \in DOMAIN reg \cup keys |->
            IF k \in keys THEN PackagePath(pkg.dir) ELSE reg[k]]

RECURSIVE RegisterAll(_, _)
RegisterAll(reg, pkgs) ==
    IF pkgs = <<>> THEN reg
    ELSE RegisterAll(RegisterPackage(reg, pkgs[1]), Tail(pkgs))

_get_custom_node_packages(pkgs) == RegisterAll(<<>>, pkgs)

----------------------------------------------------------------------------
(* WorkflowParser._guess_model_type, _guess_model_type_from_filename        *)

\* No kind: what the model holds where Python holds None for a kind
NoKind == ""

\* type_mapping, in the order of the dict literal
type_mapping ==
    << [key |-> <<"checkpoint">>,             kind |-> "checkpoints"],
       [key |-> <<"checkpoint", "load", "er">>, kind |-> "checkpoints"],
       [key |-> <<"load">>,                   kind |-> "checkpoints"],
       [key |-> <<"vae">>,                    kind |-> "vae"],
       [key |-> <<"vae", "load", "er">>,      kind |-> "vae"],
       [key |-> <<"clip">>,                   kind |-> "clip"],
       [key |-> <<"lora">>,                   kind |-> "loras"],
       [key |-> <<"lora", "load", "er">>,     kind |-> "loras"],
       [key |-> <<"embed", "ding">>,          kind |-> "embeddings"],
       [key |-> <<"textualinversion">>,       kind |-> "embeddings"],
       [key |-> <<"hypernetwork">>,           kind |-> "hypernetworks"],
       [key |-> <<"control", "net">>,         kind |-> "controlnet"],
       [key |-> <<"upscale">>,                kind |-> "upscale_models"],
       [key |-> <<"face", "detection">>,      kind |-> "insightface"],
       [key |-> <<"face", "restore">>,        kind |-> "facerestore_models"],
       [key |-> <<"ultralytics">>,            kind |-> "ultralytics"],
       [key |-> <<"llm">>,                    kind |-> "LLM"],
       [key |-> <<"sam">>,                    kind |-> "sams"] >>

\* (mutant) the last entry whose key matches wins
RECURSIVE FirstMatch_LastWins(_, _)
FirstMatch_LastWins(table, node_type) ==
    IF table = <<>> THEN NoKind
    ELSE IF IsSubstring(table[Len(table)].key, node_type) THEN table[Len(table)].kind
    ELSE FirstMatch_LastWins(SubSeq(table, 1, Len(table) - 1), node_type)

RECURSIVE FirstMatch(_, _)
FirstMatch(table, node_type) ==
    IF table = <<>> THEN NoKind
    ELSE IF IsSubstring(table[1].key, node_type) THEN table[1].kind
    ELSE FirstMatch(Tail(table), node_type)

_guess_model_type(node_type) == FirstMatch(type_mapping, Lower(node_type))

_guess_model_type_from_filename(value) ==
    LET filename == Lower(value)
        Has(k)   == IsSubstring(k, filename)
        Ends(e)  == filename # <<>> /\ filename[Len(filename)] = e
    IN  IF Ends(".safetensors") \/ Ends(".ckpt")
        THEN IF Has(<<"lora">>) THEN "loras"
             ELSE IF Has(<<"vae">>) THEN "vae"
             ELSE IF Has(<<"embed", "ding">>) \/ Has(<<"embed">>) THEN "embeddings"
             ELSE IF Has(<<"control", "net">>) \/ Has(<<"control", "_">>) THEN "controlnet"
             ELSE "checkpoints"
        ELSE IF (Ends(".pt") \/ Ends(".pth")) /\ Has(<<"sam">>) THEN "sams"
        ELSE IF (Ends(".pt") \/ Ends(".pth"))
                /\ (Has(<<"gfpgan">>) \/ Has(<<"codeformer">>) \/ Has(<<"face">>))
             THEN "facerestore_models"
        ELSE IF (Ends(".pt") \/ Ends(".pth")) /\ (Has(<<"upscale">>) \/ Has(<<"esrgan">>))
             THEN "upscale_models"
        ELSE IF Ends(".onnx") /\ Has(<<"inswapper">>) THEN "insightface"
        ELSE "checkpoints"

----------------------------------------------------------------------------
(* WorkflowParser.parse_workflow                                            *)

\* A JSON member that is missing, and one that holds a truthy non-string
Absent == <<"<absent>">>
NonStr == <<"<nonstr>">>

\* The loop over one node's widgets_values; model_type, once guessed from a
\* file name, stays for the rest of the node's values
RECURSIVE ScanValues(_, _, _)
ScanValues(values, model_type, models) ==
    IF values = <<>> THEN models
    ELSE LET value == values[1]
         IN  IF value = NonStr \/ value = <<>>
                \/ value \in {<<"randomize">>, <<"true">>, <<"false">>,
                              <<"enable">>, <<"disable">>}
                \/ value[Len(value)] \notin {".safetensors", ".ckpt", ".pt", ".pth", ".bin", ".onnx"}
             THEN ScanValues(Tail(values), model_type, models)
             ELSE LET mt == IF model_type = NoKind
                            THEN _guess_model_type_from_filename(value)
                            ELSE model_type
                  IN  ScanValues(Tail(values), mt,
                                 [models EXCEPT ![mt] = Append(@, value)])

\* The properties block: the first identifier key present
NodeId(node) ==
    IF ~node.has_props THEN <<>>
    ELSE IF node.cnr_id # Absent THEN node.cnr_id
    ELSE IF node.aux_id # Absent THEN node.aux_id
    ELSE IF node.snr # Absent THEN node.snr
    ELSE <<>>

\* One iteration of `for node in workflow['nodes']`; raised is set where
\* the code calls .lower() on a value that is no string
ScanNode(node, acc) ==
    IF ~node.is_dict THEN acc
    ELSE IF NodeId(node) = NonStr THEN [acc EXCEPT !.raised = TRUE]
    ELSE LET ids2 == IF NodeId(node) # <<>> THEN acc.ids \cup {Lower(NodeId(node))}
                     ELSE acc.ids
         IN  IF ~node.has_widgets THEN [acc EXCEPT !.ids = ids2]
             ELSE IF node.type = NonStr THEN [acc EXCEPT !.ids = ids2, !.raised = TRUE]
             ELSE LET node_type == Lower(IF node.type = Absent THEN <<>> ELSE node.type)
                  IN  [acc EXCEPT !.ids = ids2,
                                  !.models = ScanValues(node.widgets,
                                                        _guess_model_type(node_type), @)]

RECURSIVE ScanNodes(_, _)
ScanNodes(nodes, acc) ==
    IF nodes = <<>> \/ acc.raised THEN acc
    ELSE ScanNodes(Tail(nodes), ScanNode(nodes[1], acc))

\* (mutant) the partial matches are added even when the identifier is a key
ResolveNodeId_NoExactFirst(reg, node_id) ==
    {reg[k] : k \in {package_id \in DOMAIN reg :
                        IsSubstring(node_id, package_id)
                        \/ IsSubstring(package_id, node_id)}}

\* The paths the registry gives for one referenced identifier
ResolveNodeId(reg, node_id) ==
    IF node_id \in DOMAIN reg THEN {reg[node_id]}
    ELSE {reg[k] : k \in {package_id \in DOMAIN reg :
                             IsSubstring(node_id, package_id)
                             \/ IsSubstring(package_id, node_id)}}

\* resolved_nodes: a set of (package_name, path)
ResolveCustomNodes(reg, ids) ==
    {[name |-> p[Len(p)], path |-> p] :
        p \in UNION {ResolveNodeId(reg, node_id) : node_id \in ids}}

\* The per-kind resolution loop: a name whose resolved_path is None is not
\* appended
RECURSIVE ResolveModels(_, _, _, _, _)
ResolveModels(mp, model_type, names, files, os) ==
    IF names = <<>> THEN <<>>
    ELSE LET resolved_path == _resolve_model_path(mp, model_type, names[1], files, os)
             rest == ResolveModels(mp, model_type, Tail(names), files, os)
         IN  IF resolved_path # None
             THEN <<[name |-> names[1], path |-> resolved_path, is_pair |-> TRUE]>> \o rest
             ELSE rest

\* A raw reference string still in result['models'] (not a pair)
RawEntries(names) == [i \in DOMAIN names |-> [name |-> names[i], path |-> None, is_pair |-> FALSE]]

\* (mutant) the handler lets the exception out
OnException_Reraise(res) == [res EXCEPT !.status = "raised", !.error = TRUE]

\* `except Exception as e: print(...); return result`
OnException(res) == [res EXCEPT !.status = "returned", !.error = TRUE]

EmptyResult(mp) ==
    [status |-> "returned", error |-> FALSE, custom_nodes |-> {},
     models |-> [k \in DOMAIN mp.roots |-> <<>>]]

\* The scan of the document alone: identifiers and raw references per kind
ScanWorkflow(wf, mp) ==
    ScanNodes(wf.nodes, [ids |-> {}, models |-> EmptyResult(mp).models, raised |-> FALSE])

parse_workflow(wf, mp, reg, files, os) ==
    IF wf.json = "invalid" THEN OnException(EmptyResult(mp))
    ELSE IF wf.json = "not_object" \/ ~wf.has_nodes THEN EmptyResult(mp)
    ELSE LET acc == ScanWorkflow(wf, mp)
         IN  IF acc.raised
             THEN OnException([EmptyResult(mp) EXCEPT
                                  !.models = [k \in DOMAIN mp.roots |-> RawEntries(acc.models[k])]])
             ELSE [status |-> "returned", error |-> FALSE,
                   custom_nodes |-> ResolveCustomNodes(reg, acc.ids),
                   models |-> [k \in DOMAIN mp.roots |->
                                  ResolveModels(mp, k, acc.models[k], files, os)]]

----------------------------------------------------------------------------
(* Inputs                                                                   *)

\* At most this many files on disk under the checkpoint roots
MaxFiles == 3

FileA  == <<"a", ".safetensors">>
SubDir == <<"sub">>

\* The overlay root extra_model_paths.yaml adds for checkpoints
OverlayRoot == << <<"extra">>, <<"ckpt">> >>

NoOverlay == [state |-> "absent", blocks |-> <<>>]

CheckpointOverlay ==
    [state  |-> "blocks",
     blocks |-> << [is_dict |-> TRUE, has_base |-> TRUE, base_is_str |-> TRUE,
                    base_path |-> <<"extra">>,
                    items |-> << [model_type |-> "checkpoints", key_is_str |-> TRUE,
                                  is_str |-> TRUE, rel_path |-> << <<"ckpt">> >>] >>] >>]

Overlays == {NoOverlay, CheckpointOverlay}

Platforms == {"posix", "nt"}

IdleResolve ==
    /\ rq = [kind |-> NoKind, name |-> <<>>]
    /\ rres = [done |-> FALSE, path |-> None]

IdleWorkflow == [json |-> "invalid", has_nodes |-> FALSE, nodes |-> <<>>]

PendingResult == [status |-> "pending", error |-> FALSE, custom_nodes |-> {}, models |-> <<>>]

IdleParse ==
    /\ workflow = IdleWorkflow
    /\ packages = <<>>
    /\ result = PendingResult

IdlePackage ==
    /\ pc = "idle"
    /\ todo = <<>>
    /\ sizes = <<>>
    /\ dest_tree = {}
    /\ external_models = <<>>
    /\ log = <<>>
    /\ config_written = FALSE
    /\ zip_written = FALSE
    /\ retval = "none"

NoFile == [exists |-> FALSE, data |-> <<>>]

IdleFetch ==
    /\ expected_hash = <<>>
    /\ requests_loaded = FALSE
    /\ served = <<>>
    /\ dest_file = NoFile
    /\ dest_file0 = NoFile
    /\ temp = NoFile
    /\ fpc = "idle"
    /\ net_requests = 0
    /\ success = FALSE
    /\ fresult = "none"
    /\ fetcher = "none"
    /\ asset_url = <<>>
    /\ api_key = None
    /\ same_volume = TRUE
    /\ sent = <<>>
    /\ fmsgs = {}

IdleManifest ==
    /\ config = [state |-> "none", models |-> <<>>]
    /\ mpc = "idle"
    /\ mi = 0
    /\ success_count = 0
    /\ failure_count = 0
    /\ processed = <<>>
    /\ mret = "none"

\* model_paths holds the index of an installation without overlay
IdleLoad == yaml_data = NoOverlay /\ loaded = TRUE

----------------------------------------------------------------------------
(* SpecResolve: _resolve_model_path applied to every (kind, name) over      *)
(* every bounded disk                                                       *)

InitResolve ==
    /\ os_name \in Platforms
    /\ yaml_data \in Overlays
    /\ loaded = TRUE
    /\ model_paths = _load_model_paths(yaml_data, os_name)
    /\ fs \in {S \in SUBSET { DefaultRoot("checkpoints") \o <<FileA>>,
                             DefaultRoot("checkpoints") \o <<SubDir, FileA>>,
                             OverlayRoot \o <<FileA>>,
                             OverlayRoot \o <<SubDir, FileA>> } :
                  Cardinality(S) <= MaxFiles}
    /\ rq \in [kind : {"checkpoints", "nosuchkind"}, name : { <<"a", ".safetensors">>,
                      <<"sub", "/", "a", ".safetensors">>,
                      <<"sub", "\\", "a", ".safetensors">>,
                      <<"A", ".safetensors">> }]
    /\ rres = [done |-> FALSE, path |-> None]
    /\ IdleParse
    /\ IdlePackage
    /\ IdleFetch
    /\ IdleManifest

Resolve ==
    /\ ~rres.done
    /\ rres' = [done |-> TRUE,
                path |-> _resolve_model_path(model_paths, rq.kind, rq.name, fs, os_name)]
    /\ UNCHANGED <<envVars, rq, parseVars, packageVars, fetchVars, manifestVars, loadVars>>

NextResolve == Resolve

SpecResolve == InitResolve /\ [][NextResolve]_vars

\* The candidate roots of the query's kind that hold the file root/N itself
DirectRoots ==
    IF rq.kind \notin DOMAIN model_paths.roots THEN {}
    ELSE {i \in DOMAIN model_paths.roots[rq.kind] :
             \E f \in fs : FsKey(f, os_name)
                           = FsKey(Join(model_paths.roots[rq.kind][i], rq.name, os_name), os_name)}

EarliestDirect ==
    Join(model_paths.roots[rq.kind][CHOOSE i \in DirectRoots : \A j \in DirectRoots : i <= j],
         rq.name, os_name)

\* C2: when the file N exists directly under a candidate root of kind K,
\* _resolve_model_path(K, N) returns root/N for the earliest-listed such root
\* (so the default root's copy wins over an overlay root's copy).
C2_EarliestDirectRootWins ==
    (rres.done /\ DirectRoots # {}) => rres.path = EarliestDirect

----------------------------------------------------------------------------
(* SpecParse: parse_workflow over bounded workflow documents, extension     *)
(* directories and disks                                                    *)

\* At most this many nodes in a workflow, packages in the extensions directory
MaxNodes    == 2
MaxPackages == 2

\* A node that carries widgets_values and no properties
ModelNode(type, widgets) ==
    [is_dict |-> TRUE, has_props |-> FALSE, cnr_id |-> Absent, aux_id |-> Absent,
     snr |-> Absent, has_widgets |-> TRUE, widgets |-> widgets, type |-> type]

\* A node that carries a properties block and no widgets_values
IdNode(cnr_id, aux_id, snr) ==
    [is_dict |-> TRUE, has_props |-> TRUE, cnr_id |-> cnr_id, aux_id |-> aux_id,
     snr |-> snr, has_widgets |-> FALSE, widgets |-> <<>>, type |-> Absent]

CheckpointLoaderSimple == <<"Checkpoint", "Load", "er", "Simple">>
LoraStack              == <<"Lora", "Stack">>

ParseNodes ==
    {ModelNode(t, <<w>>) : t \in {CheckpointLoaderSimple, LoraStack},
                           w \in {FileA, <<"sub", "/", "a", ".safetensors">>}}
    \cup {IdNode(<<"a">>, Absent, Absent),
          IdNode(Absent, <<"A", "b">>, Absent),
          IdNode(<<>>, <<"b">>, Absent)}

SeqsUpTo(S, n) == UNION {[1..k -> S] : k \in 0..n}

BadDocuments ==
    {[json |-> "invalid",    has_nodes |-> FALSE, nodes |-> <<>>],
     [json |-> "not_object", has_nodes |-> FALSE, nodes |-> <<>>],
     [json |-> "object",     has_nodes |-> FALSE, nodes |-> <<>>]}

Documents(nodes, n) ==
    BadDocuments \cup
    {[json |-> "object", has_nodes |-> TRUE, nodes |-> ns] : ns \in SeqsUpTo(nodes, n)}

ParsePackages ==
    {[dir |-> <<"a">>,      aliases |-> {}],
     [dir |-> <<"a", "b">>, aliases |-> {}],
     [dir |-> <<"b", "a">>, aliases |-> {}],
     [dir |-> <<"c">>,      aliases |-> {<<"a">>}]}

\* A directory listing names every directory once
Listings(pkgs, n) ==
    {l \in SeqsUpTo(pkgs, n) : \A i, j \in DOMAIN l : i # j => l[i].dir # l[j].dir}

ParseDisks ==
    {{}, {DefaultRoot("checkpoints") \o <<FileA>>},
     {DefaultRoot("loras") \o <<SubDir, FileA>>}}

\* self.custom_node_packages, built when the parser is constructed
Registry == _get_custom_node_packages(packages)

InitParse ==
    /\ os_name \in Platforms
    /\ model_paths = _load_model_paths(NoOverlay, os_name)
    /\ fs \in ParseDisks
    /\ workflow \in Documents(ParseNodes, MaxNodes)
    /\ packages \in Listings(ParsePackages, MaxPackages)
    /\ result = PendingResult
    /\ IdleResolve
    /\ IdlePackage
    /\ IdleFetch
    /\ IdleManifest
    /\ IdleLoad

ParseWorkflow ==
    /\ result.status = "pending"
    /\ result' = parse_workflow(workflow, model_paths, Registry, fs, os_name)
    /\ UNCHANGED <<envVars, resolveVars, fetchVars, manifestVars, loadVars, workflow, packages, packageVars>>

NextParse == ParseWorkflow

SpecParse == InitParse /\ [][NextParse]_vars

\* The document has a nodes array that the scan went through without error
Scanned ==
    /\ workflow.json = "object" /\ workflow.has_nodes
    /\ ~ScanWorkflow(workflow, model_paths).raised

\* C3: every reference the scan extracted is in the returned result, as a
\* resolved (name, path) pair or as an entry marked unresolved.
C3_EveryReferenceAccountedFor ==
    (result.status = "returned" /\ Scanned) =>
        \A k \in DOMAIN model_paths.roots :
            \A name \in Range(ScanWorkflow(workflow, model_paths).models[k]) :
                \E e \in Range(result.models[k]) : e.name = name

\* C4: a document that is not valid JSON, not an object, or an object
\* without `nodes`, gives a returned (not raised) result whose custom_nodes
\* is empty and whose list of every kind is empty.
C4_BadDocumentGivesEmptyResult ==
    (result.status # "pending" /\ workflow \in BadDocuments) =>
        /\ result.status = "returned"
        /\ result.custom_nodes = {}
        /\ DOMAIN result.models = DOMAIN model_paths.roots
        /\ \A k \in DOMAIN result.models : result.models[k] = <<>>

C4_Witness ==
    /\ result.status = "returned" /\ result.error
    /\ workflow.json = "invalid"
    /\ packages # <<>> /\ fs # {}

\* The identifiers the scan collected, and the paths in custom_nodes
ReferencedIds == ScanWorkflow(workflow, model_paths).ids
ResolvedPaths == {e.path : e \in result.custom_nodes}

Matches(node_id, key) == IsSubstring(node_id, key) \/ IsSubstring(key, node_id)

\* C6 as stated: two packages of the extensions directory, each registered
\* under its own directory name, and a referenced identifier that both
\* directory names contain (one of them possibly being exactly the
\* identifier): both packages are in custom_nodes.
C6_BothCandidatesReturned ==
    (result.status = "returned" /\ Scanned) =>
        \A node_id \in ReferencedIds : \A i, j \in DOMAIN packages :
            ( /\ i # j
              /\ Registry[Lower(packages[i].dir)] = PackagePath(packages[i].dir)
              /\ Registry[Lower(packages[j].dir)] = PackagePath(packages[j].dir)
              /\ IsSubstring(node_id, Lower(packages[i].dir))
              /\ IsSubstring(node_id, Lower(packages[j].dir)) )
            => {PackagePath(packages[i].dir), PackagePath(packages[j].dir)} \subseteq ResolvedPaths

\* C6 amended: an identifier that is no key of the registry yields every
\* package registered under a key that contains it or is contained in it;
\* an identifier that is a key yields the package of that key alone;
\* custom_nodes holds each resolved path once, under its directory name.
C6_ExactFirstElseAllPartial ==
    (result.status = "returned" /\ Scanned) =>
        /\ ResolvedPaths =
             UNION { IF node_id \in DOMAIN Registry
                     THEN {Registry[node_id]}
                     ELSE {Registry[key] : key \in {k \in DOMAIN Registry : Matches(node_id, k)}}
                     : node_id \in ReferencedIds }
        /\ \A e1, e2 \in result.custom_nodes : e1.path = e2.path => e1 = e2
        /\ \A e \in result.custom_nodes : e.name = e.path[Len(e.path)]

\* Two packages returned for one identifier that is no registry key
C6_Witness ==
    /\ result.status = "returned" /\ Scanned
    /\ \E node_id \in ReferencedIds :
          /\ ReferencedIds = {node_id}
          /\ node_id \notin DOMAIN Registry
          /\ Cardinality(ResolvedPaths) = 2

----------------------------------------------------------------------------
(* package_creator_windows.py: calculate_file_hash and create_package       *)

\* The bytes of a file on disk, named by the file that holds them
ContentOf(file) == <<"bytes", file>>

\* (mutant) a digest that depends on the length of the content only
Md5Hex_LengthOnly(content) == <<"md5", Len(content)>>

\* hashlib.md5(...).hexdigest(): 32 hex digits that depend on the bytes alone
Md5Hex(content) == <<"md5", content>>

calculate_file_hash(file) == Md5Hex(ContentOf(file))

\* size_threshold = size_threshold_gb * 1024 * 1024 * 1024, with
\* --size-threshold 1
SizeThreshold == 1 * (1024 * 1024 * 1024)

\* dest_dir, relative to the package directory: six kinds have a directory
\* of their own, every other kind goes to models/checkpoints
DestDir(model_type) ==
    IF model_type \in {"loras", "controlnet", "vae", "embeddings", "insightface", "ultralytics"}
    THEN << <<"models">>, <<model_type>> >>
    ELSE << <<"models">>, <<"checkpoints">> >>

\* dest_path: dest_dir, plus dirname(model_name) when the name holds a slash
\* or a backslash, plus the base name
DestPath(model_type, model_name, os) ==
    LET has_sub  == "/" \in Range(model_name) \/ "\\" \in Range(model_name)
        rel_path == IF has_sub THEN model_name ELSE Basename(model_name, os)
        dest_dir == IF has_sub
                    THEN Join(DestDir(model_type), Dirname(model_name, os), os)
                    ELSE DestDir(model_type)
    IN  Join(dest_dir, Basename(rel_path, os), os)

\* (mutant) externalization also embeds the file
Decide_ExternalizeCopies(model_size, choice, model_url) ==
    IF model_size > SizeThreshold
    THEN IF choice = "1" \/ (choice = "2" /\ model_url # "") THEN "copy_large"
         ELSE IF choice = "2" THEN "no_url"
         ELSE "skip"
    ELSE "copy"

\* The branch one resolved model takes, from its size and the operator's
\* answers to the two prompts
Decide(model_size, choice, model_url) ==
    IF model_size > SizeThreshold
    THEN IF choice = "1" THEN "copy_large"
         ELSE IF choice = "2" THEN (IF model_url # "" THEN "external" ELSE "no_url")
         ELSE "skip"
    ELSE "copy"

\* The entry appended to external_models
ExternalModel(model_type, model_name, model_path, model_url, model_size, os) ==
    [name |-> Basename(model_name, os),
     type |-> model_type,
     path |-> IF "/" \in Range(model_name) \/ "\\" \in Range(model_name)
              THEN model_name ELSE <<>>,
     url  |-> model_url,
     hash |-> calculate_file_hash(model_path),
     size |-> model_size]

\* dependencies['models'].items(), flattened in iteration order
RECURSIVE ModelEntries(_, _)
ModelEntries(order, models) ==
    IF order = <<>> THEN <<>>
    ELSE [i \in DOMAIN models[order[1]] |->
             [kind |-> order[1], name |-> models[order[1]][i].name,
              path |-> models[order[1]][i].path, is_pair |-> models[order[1]][i].is_pair]]
         \o ModelEntries(Tail(order), models)

----------------------------------------------------------------------------
(* Spec: create_package, from its call in main() to its return              *)

\* At most this many nodes in the workflow given to create_package
MaxModels == 2

PackageNodes ==
    {ModelNode(CheckpointLoaderSimple, <<FileA>>),
     ModelNode(LoraStack, << <<"sub", "/", "a", ".safetensors">> >>),
     ModelNode(<<"CLIP", "vision">>, <<FileA>>),
     IdNode(<<"a">>, Absent, Absent)}

PackageFiles ==
    { DefaultRoot("checkpoints") \o <<FileA>>,
      DefaultRoot("loras") \o <<SubDir, FileA>>,
      DefaultRoot("clip") \o <<FileA>> }

Init ==
    /\ os_name \in Platforms
    /\ model_paths = _load_model_paths(NoOverlay, os_name)
    /\ fs = PackageFiles
    /\ workflow \in Documents(PackageNodes, MaxModels)
                    \cup {[json |-> "missing", has_nodes |-> FALSE, nodes |-> <<>>]}
    /\ packages = << [dir |-> <<"a">>, aliases |-> {}] >>
    /\ result = PendingResult
    /\ pc = "start"
    /\ todo = <<>>
    /\ sizes \in [PackageFiles -> {SizeThreshold - 1, SizeThreshold, SizeThreshold + 1}]
    /\ dest_tree = {}
    /\ external_models = <<>>
    /\ log = <<>>
    /\ config_written = FALSE
    /\ zip_written = FALSE
    /\ retval = "none"
    /\ IdleResolve
    /\ IdleFetch
    /\ IdleManifest
    /\ IdleLoad

\* Lines 28-46: the workflow file and the ComfyUI directory must exist
Validate ==
    /\ pc = "start"
    /\ \E comfyui_found \in BOOLEAN :
          IF workflow.json = "missing" \/ ~comfyui_found
          THEN pc' = "done" /\ retval' = "False"
          ELSE pc' = "parse" /\ retval' = retval
    /\ UNCHANGED <<envVars, resolveVars, fetchVars, manifestVars, loadVars, parseVars, todo, sizes, dest_tree,
                   external_models, log, config_written, zip_written>>

\* Lines 53-56: dependencies = parser.parse_workflow(workflow_path)
Analyze ==
    /\ pc = "parse"
    /\ result' = parse_workflow(workflow, model_paths, Registry, fs, os_name)
    /\ pc' = "setup"
    /\ UNCHANGED <<envVars, resolveVars, fetchVars, manifestVars, loadVars, workflow, packages, todo, sizes, dest_tree,
                   external_models, log, config_written, zip_written, retval>>

\* Lines 58-103: the overwrite prompt, the directory structure, the copy of
\* the workflow file (an error here leaves create_package), and the copy of
\* every custom node package (an error there is printed and skipped)
Setup ==
    /\ pc = "setup"
    /\ \E dir_exists \in BOOLEAN, overwrite \in BOOLEAN, copy_ok \in BOOLEAN :
          IF dir_exists /\ ~overwrite
          THEN /\ pc' = "done" /\ retval' = "False"
               /\ UNCHANGED <<todo, dest_tree>>
          ELSE IF ~copy_ok
          THEN /\ pc' = "done" /\ retval' = "raised_setup"
               /\ UNCHANGED <<todo, dest_tree>>
          ELSE \E copied \in SUBSET result.custom_nodes :
               /\ dest_tree' = {[dest |-> << <<"custom_nodes">>, e.name >>, src |-> e.path] :
                                   e \in copied}
               /\ todo' = ModelEntries(model_paths.order, result.models)
               /\ pc' = "models" /\ retval' = retval
    /\ UNCHANGED <<envVars, resolveVars, fetchVars, manifestVars, loadVars, parseVars, sizes, external_models, log,
                   config_written, zip_written>>

\* The model file disappears between the analysis and its processing
FileVanishes ==
    /\ pc = "models" /\ todo # <<>>
    /\ todo[1].is_pair /\ todo[1].path \in fs
    /\ fs' = fs \ {todo[1].path}
    /\ UNCHANGED <<os_name, model_paths, resolveVars, fetchVars, manifestVars, loadVars, parseVars, packageVars>>

LogEntry(e, size, choice, url, msg, dest) ==
    [kind |-> e.kind, name |-> e.name, size |-> size, choice |-> choice, url |-> url,
     msg |-> msg, dest |-> dest]

\* Lines 117-198: one iteration of the loop over the resolved models.
\* shutil.copy2 and the reads of calculate_file_hash are outside any try
\* block: when one raises, the exception leaves create_package.
ProcessModel ==
    /\ pc = "models" /\ todo # <<>>
    /\ LET e == todo[1] IN
       IF ~e.is_pair
       THEN /\ pc' = "done" /\ retval' = "raised_model"
            /\ UNCHANGED <<todo, dest_tree, external_models, log>>
       ELSE IF e.path = None
       THEN /\ log' = Append(log, LogEntry(e, 0, "", "", "could_not_locate", None))
            /\ todo' = Tail(todo)
            /\ UNCHANGED <<pc, retval, dest_tree, external_models>>
       ELSE IF ~Exists(e.path, fs, os_name)
       THEN /\ log' = Append(log, LogEntry(e, 0, "", "", "not_found", None))
            /\ todo' = Tail(todo)
            /\ UNCHANGED <<pc, retval, dest_tree, external_models>>
       ELSE \E choice \in {"1", "2", "3"}, model_url \in {"", "https://host/model"},
               io_ok \in BOOLEAN :
            LET model_size == sizes[e.path]
                dest_path  == DestPath(e.kind, e.name, os_name)
                branch     == Decide(model_size, choice, model_url)
                asked      == IF model_size > SizeThreshold THEN choice ELSE ""
                given      == IF branch \in {"external", "no_url"} THEN model_url ELSE ""
            IN  /\ (model_size <= SizeThreshold => choice = "1" /\ model_url = "")
                /\ (choice # "2" => model_url = "")
                /\ (branch \in {"no_url", "skip"} => io_ok)
                /\ IF ~io_ok
                   THEN /\ pc' = "done" /\ retval' = "raised_model"
                        /\ UNCHANGED <<todo, dest_tree, external_models, log>>
                   ELSE /\ dest_tree' =
                             IF branch \in {"copy", "copy_large"}
                             THEN {c \in dest_tree : c.dest # dest_path}
                                  \cup {[dest |-> dest_path, src |-> e.path]}
                             ELSE dest_tree
                        /\ external_models' =
                             IF branch = "external"
                             THEN Append(external_models,
                                         ExternalModel(e.kind, e.name, e.path, model_url,
                                                       model_size, os_name))
                             ELSE external_models
                        /\ log' = Append(log, LogEntry(e, model_size, asked, given, branch,
                                                       IF branch \in {"copy", "copy_large"}
                                                       THEN dest_path ELSE None))
                        /\ todo' = Tail(todo)
                        /\ UNCHANGED <<pc, retval>>
    /\ UNCHANGED <<envVars, resolveVars, fetchVars, manifestVars, loadVars, parseVars, sizes, config_written, zip_written>>

\* Lines 200-432: config.json, the download script, the zip archive,
\* `return True`
Finish ==
    /\ pc = "models" /\ todo = <<>>
    /\ config_written' = TRUE
    /\ zip_written' = TRUE
    /\ retval' = "True"
    /\ pc' = "done"
    /\ UNCHANGED <<envVars, resolveVars, fetchVars, manifestVars, loadVars, parseVars, todo, sizes, dest_tree,
                   external_models, log>>

Next == Validate \/ Analyze \/ Setup \/ FileVanishes \/ ProcessModel \/ Finish

Spec == Init /\ [][Next]_vars

\* The branches of the three-way decision (taken after the prompt)
PromptedBranches == {"copy_large", "external", "no_url", "skip"}

\* C1: a resolved model whose size equals the threshold goes through the
\* three-way decision; it is not copied as a below-threshold file.
C1_AtThresholdIsPrompted ==
    \A i \in DOMAIN log :
        log[i].size = SizeThreshold => log[i].msg \in PromptedBranches

\* C5: a workflow file that exists and holds malformed JSON ends
\* create_package without a manifest, a zip archive or a success return.
C5_MalformedWorkflowIsFatal ==
    workflow.json = "invalid" =>
        ~config_written /\ ~zip_written /\ retval # "True"

\* C7: a resolved model of kind K below the threshold is copied to
\* models/<K>/<the reference's relative path>, whatever the kind K.
C7_CopiedUnderItsKind ==
    \A i \in DOMAIN log :
        log[i].msg = "copy" =>
            log[i].dest = Join(<< <<"models">>, <<log[i].kind>> >>, log[i].name, os_name)

\* C8: for a model above the threshold, the step that processes it does
\* exactly one of: (externalize, with a URL) append one ExternalAsset with a
\* non-empty fingerprint and copy nothing; (embed) copy the file and append
\* no ExternalAsset; (skip, or no URL) neither.
C8_Outcome(e, src) ==
    LET copy == [dest |-> DestPath(e.kind, e.name, os_name), src |-> src]
    IN  /\ e.msg \in PromptedBranches
        /\ (e.choice = "2" /\ e.url # "") =>
              /\ Len(external_models') = Len(external_models) + 1
              /\ SubSeq(external_models', 1, Len(external_models)) = external_models
              /\ external_models'[Len(external_models')].hash # <<>>
              /\ external_models'[Len(external_models')].name = Basename(e.name, os_name)
              /\ dest_tree' = dest_tree
        /\ e.choice = "1" =>
              /\ copy \in dest_tree'
              /\ dest_tree' \ {copy} \subseteq dest_tree
              /\ external_models' = external_models
        /\ ~(e.choice = "1" \/ (e.choice = "2" /\ e.url # "")) =>
              /\ dest_tree' = dest_tree
              /\ external_models' = external_models

C8_ThreeWayExclusive ==
    [][ (pc = "models" /\ Len(log') = Len(log) + 1
         /\ log'[Len(log')].size > SizeThreshold)
        => C8_Outcome(log'[Len(log')], todo[1].path) ]_vars

C8_Witness ==
    /\ \E i \in DOMAIN log : log[i].msg = "external" /\ log[i].size > SizeThreshold
    /\ \E i \in DOMAIN log : log[i].msg = "copy_large"
    /\ Len(external_models) = 1
    /\ Cardinality(dest_tree) = 1

\* C9: a failure while one model is processed does not end the run: once
\* the loop over the models is entered, create_package goes through every
\* model and writes the manifest.
C9_ModelFailureDoesNotStopRun ==
    (pc = "done" /\ retval \notin {"False", "raised_setup"}) =>
        /\ todo = <<>>
        /\ config_written


----------------------------------------------------------------------------
(* model_downloader.py: verify_hash, download_with_requests,                *)
(* download_with_urllib, download_model; download_models.py: the same       *)
(* functions and the loop body of main                                      *)

\* (mutant) the comparison of the two digests is lost: every file verifies
verify_hash_AlwaysTrue(data, expected) == TRUE

\* verify_hash: the MD5 of the file's bytes against the expected digest
verify_hash(data, expected) == Md5Hex(data) = expected

\* A file's content is the sequence of the chunks written to it
MaxChunks == 2

Bodies == SeqsUpTo({"x", "y"}, MaxChunks)

\* The bytes the ExternalAsset's hash was computed from
OriginalBody == [i \in 1..MaxChunks |-> "x"]

File(data) == [exists |-> TRUE, data |-> data]

\* Asset urls: scheme, host, then the rest
GatedHost == "civitai.com"

Urls ==
    { <<"https://", "civitai.com", "/", "m">>,
      <<"https://", "hf.co", "/", "m">>,
      <<"https://", "hf.co", "/", "civitai.com">> }

Host(u) == u[2]

\* `"civitai.com" in url`
UrlNamesGatedHost(u) == IsSubstring(<<GatedHost>>, u)

\* headers["Authorization"] = f"Bearer {api_key}"
Bearer(key) == <<"Bearer", key>>

NoHeader == <<>>

Fetchers == {"model_downloader", "download_models"}

\* (mutant) the result of verify_hash is not consulted after a download
VerifyAfterDownload_Unchecked(ok, expected, file) ==
    [ret |-> ok, warn |-> FALSE]

\* (mutant) the corruption warning is printed but the transport's result is
\* returned, as the loop of download_models.py does
VerifyAfterDownload_WarnOnly(ok, expected, file) ==
    [ret |-> ok, warn |-> ok /\ expected # <<>> /\ ~verify_hash(file.data, expected)]

\* model_downloader.py lines 221-226: what download_model returns after the
\* transport has returned `ok`, and whether the corruption warning is printed
VerifyAfterDownload(ok, expected, file) ==
    IF ok /\ expected # <<>> /\ ~verify_hash(file.data, expected)
    THEN [ret |-> FALSE, warn |-> TRUE]
    ELSE [ret |-> ok, warn |-> FALSE]

Str(b) == IF b THEN "True" ELSE "False"

InitFetch ==
    /\ os_name = "posix"
    /\ fs = {}
    /\ model_paths = _load_model_paths(NoOverlay, os_name)
    /\ IdleResolve
    /\ IdleParse
    /\ IdlePackage
    /\ IdleManifest
    /\ IdleLoad
    /\ fetcher \in Fetchers
    /\ asset_url \in Urls
    /\ api_key \in {None, <<"k">>}
    /\ same_volume \in BOOLEAN
    /\ expected_hash \in {<<>>, Md5Hex(OriginalBody)}
    /\ requests_loaded \in BOOLEAN
    /\ served \in Bodies
    /\ dest_file \in {NoFile} \cup {File(b) : b \in Bodies}
    /\ dest_file0 = dest_file
    /\ temp = NoFile
    /\ fpc = "start"
    /\ net_requests = 0
    /\ success = FALSE
    /\ fresult = "none"
    /\ sent = <<>>
    /\ fmsgs = {}

\* model_downloader.py lines 198-213: an existing file is kept when it
\* verifies, or when no hash is recorded
DM_CheckExisting ==
    /\ fpc = "start" /\ fetcher = "model_downloader"
    /\ IF dest_file.exists /\ expected_hash # <<>> /\ verify_hash(dest_file.data, expected_hash)
       THEN fpc' = "done" /\ fresult' = "True" /\ fmsgs' = fmsgs \cup {"skip_hash_ok"}
       ELSE IF dest_file.exists /\ expected_hash = <<>>
       THEN fpc' = "done" /\ fresult' = "True" /\ fmsgs' = fmsgs \cup {"skip_exists"}
       ELSE /\ fpc' = "download" /\ fresult' = fresult
            /\ fmsgs' = IF dest_file.exists THEN fmsgs \cup {"redownload"} ELSE fmsgs
    /\ UNCHANGED <<envVars, resolveVars, parseVars, packageVars, manifestVars, loadVars, expected_hash,
                   requests_loaded, served, dest_file, dest_file0, temp, net_requests,
                   success, fetcher, asset_url, api_key, same_volume, sent>>

\* download_models.py lines 231-238: an existing file is kept only when a
\* hash is recorded and the file verifies
V_CheckExisting ==
    /\ fpc = "start" /\ fetcher = "download_models"
    /\ IF dest_file.exists /\ expected_hash # <<>> /\ verify_hash(dest_file.data, expected_hash)
       THEN fpc' = "done" /\ fresult' = "skipped" /\ fmsgs' = fmsgs \cup {"skip_hash_ok"}
       ELSE /\ fpc' = "download" /\ fresult' = fresult
            /\ fmsgs' = IF dest_file.exists /\ expected_hash # <<>>
                        THEN fmsgs \cup {"redownload"} ELSE fmsgs
    /\ UNCHANGED <<envVars, resolveVars, parseVars, packageVars, manifestVars, loadVars, expected_hash,
                   requests_loaded, served, dest_file, dest_file0, temp, net_requests,
                   success, fetcher, asset_url, api_key, same_volume, sent>>

\* The Authorization header both fetchers build for a request
AuthHeader(u, key) ==
    IF UrlNamesGatedHost(u) /\ key # None THEN Bearer(key) ELSE NoHeader

\* The transport `'requests' in sys.modules` selects
Transport == IF requests_loaded THEN "requests" ELSE "urllib"

\* One request and the server's answer to it
RequestRecord(answer) ==
    [host |-> Host(asset_url), auth |-> AuthHeader(asset_url, api_key),
     via |-> Transport, answer |-> answer]

\* An exception raised inside a transport is turned into `return False` by
\* both transports of model_downloader.py (lines 129-131, 188-190) and by the
\* credential branch of download_models.py's urllib transport (lines
\* 147-149); elsewhere in download_models.py it reaches main's except clause
\* (lines 252-254)
ErrorCaught ==
    \/ fetcher = "model_downloader"
    \/ ~requests_loaded /\ UrlNamesGatedHost(asset_url)

\* The finally clause removes temp_dir, except in the credential branch of
\* download_models.py's urllib transport, which has none
TempCleaned ==
    ~(fetcher = "download_models" /\ ~requests_loaded /\ UrlNamesGatedHost(asset_url))

TransportFails ==
    /\ temp' = IF TempCleaned THEN NoFile ELSE temp
    /\ success' = FALSE
    /\ fmsgs' = fmsgs \cup {"error"}
    /\ IF ErrorCaught THEN fpc' = "returned" /\ fresult' = fresult
       ELSE fpc' = "done" /\ fresult' = "error"

\* model_downloader.py lines 84-111 (requests.get) or 151-168 (urlopen): the
\* headers, then the one request of the transport chosen by
\* `'requests' in sys.modules`.  A status other than 200 (checked by
\* download_with_requests only) or an error raised returns False.
DL_Request ==
    /\ fpc = "download" /\ fetcher = "model_downloader"
    /\ net_requests' = net_requests + 1
    /\ LET warned == IF UrlNamesGatedHost(asset_url) /\ api_key = None
                     THEN fmsgs \cup {"no_key_warning"} ELSE fmsgs
       IN  \E answer \in {"ok", "error"} \cup (IF requests_loaded THEN {"bad_status"} ELSE {}) :
           /\ sent' = Append(sent, RequestRecord(answer))
           /\ IF answer = "ok"
              THEN /\ temp' = File(<<>>)
                   /\ fpc' = "stream"
                   /\ fmsgs' = warned
                   /\ UNCHANGED <<success, fresult>>
              ELSE /\ temp' = NoFile
                   /\ fpc' = "returned"
                   /\ success' = FALSE
                   /\ fmsgs' = warned \cup {answer}
                   /\ fresult' = fresult
    /\ UNCHANGED <<envVars, resolveVars, parseVars, packageVars, manifestVars, loadVars, expected_hash,
                   requests_loaded, served, dest_file, dest_file0, fetcher, asset_url,
                   api_key, same_volume>>

\* download_models.py lines 62-78 (requests) or 113-124, 152-154 (urllib):
\* a url naming the gated host is refused without a key; otherwise the one
\* request is sent.  download_with_requests does not look at the status of
\* the response: the body of an error response is streamed like any other
\* (urlopen raises on such a response).
V_Request ==
    /\ fpc = "download" /\ fetcher = "download_models"
    /\ IF UrlNamesGatedHost(asset_url) /\ api_key = None
       THEN /\ fmsgs' = fmsgs \cup {"refused"}
            /\ fpc' = "returned"
            /\ success' = FALSE
            /\ UNCHANGED <<net_requests, sent, temp, fresult>>
       ELSE /\ net_requests' = net_requests + 1
            /\ \E answer \in {"ok", "error"} \cup (IF requests_loaded THEN {"bad_status"} ELSE {}) :
               /\ sent' = Append(sent, RequestRecord(answer))
               /\ IF answer \in {"ok", "bad_status"}
                  THEN /\ temp' = File(<<>>)
                       /\ fpc' = "stream"
                       /\ UNCHANGED <<success, fresult, fmsgs>>
                  ELSE TransportFails
    /\ UNCHANGED <<envVars, resolveVars, parseVars, packageVars, manifestVars, loadVars, expected_hash,
                   requests_loaded, served, dest_file, dest_file0, fetcher, asset_url,
                   api_key, same_volume>>

\* The chunk loop of the four transports (model_downloader.py lines 115-118,
\* 171-177): one chunk is written to temp_file, or the read raises
DL_Chunk ==
    /\ fpc = "stream"
    /\ Len(temp.data) < Len(served)
    /\ \E read_ok \in BOOLEAN :
          IF read_ok
          THEN /\ temp' = File(Append(temp.data, served[Len(temp.data) + 1]))
               /\ UNCHANGED <<fpc, success, fresult, fmsgs>>
          ELSE TransportFails
    /\ UNCHANGED <<envVars, resolveVars, parseVars, packageVars, manifestVars, loadVars, expected_hash,
                   requests_loaded, served, dest_file, dest_file0, net_requests,
                   fetcher, asset_url, api_key, same_volume, sent>>

\* shutil.move(temp_file, dest_path) (model_downloader.py lines 126, 185).
\* With both paths on one file system it is os.rename; otherwise os.rename
\* raises OSError and shutil.move copies: dest_path is opened for writing
\* (truncated) and filled chunk by chunk, then temp_file is unlinked.
DL_Move ==
    /\ fpc = "stream"
    /\ Len(temp.data) = Len(served)
    /\ \E move_ok \in BOOLEAN :
          IF ~move_ok
          THEN TransportFails /\ dest_file' = dest_file
          ELSE IF same_volume
          THEN /\ dest_file' = File(temp.data)
               /\ temp' = NoFile
               /\ success' = TRUE
               /\ fpc' = "returned"
               /\ fmsgs' = fmsgs \cup {"complete"}
               /\ fresult' = fresult
          ELSE /\ dest_file' = File(<<>>)
               /\ fpc' = "copying"
               /\ UNCHANGED <<temp, success, fmsgs, fresult>>
    /\ UNCHANGED <<envVars, resolveVars, parseVars, packageVars, manifestVars, loadVars, expected_hash,
                   requests_loaded, served, dest_file0, net_requests,
                   fetcher, asset_url, api_key, same_volume, sent>>

\* The copy loop inside shutil.move across file systems: one more chunk
\* reaches dest_path, or the write raises (disk full) and the exception
\* leaves shutil.move with dest_path as far as it was written
DL_CopyChunk ==
    /\ fpc = "copying"
    /\ IF Len(dest_file.data) < Len(temp.data)
       THEN \E write_ok \in BOOLEAN :
               IF write_ok
               THEN /\ dest_file' = File(Append(dest_file.data,
                                                temp.data[Len(dest_file.data) + 1]))
                    /\ UNCHANGED <<temp, fpc, success, fresult, fmsgs>>
               ELSE TransportFails /\ dest_file' = dest_file
       ELSE /\ temp' = NoFile
            /\ success' = TRUE
            /\ fpc' = "returned"
            /\ fmsgs' = fmsgs \cup {"complete"}
            /\ UNCHANGED <<dest_file, fresult>>
    /\ UNCHANGED <<envVars, resolveVars, parseVars, packageVars, manifestVars, loadVars, expected_hash,
                   requests_loaded, served, dest_file0, net_requests,
                   fetcher, asset_url, api_key, same_volume, sent>>

\* The process is interrupted (KeyboardInterrupt: not an Exception, so no
\* except clause handles it; the finally clause runs) during a transport
Interrupt ==
    /\ fpc \in {"stream", "copying"}
    /\ fpc' = "interrupted"
    /\ temp' = IF TempCleaned THEN NoFile ELSE temp
    /\ UNCHANGED <<envVars, resolveVars, parseVars, packageVars, manifestVars, loadVars, expected_hash,
                   requests_loaded, served, dest_file, dest_file0, net_requests,
                   success, fresult, fetcher, asset_url, api_key, same_volume, sent, fmsgs>>

\* model_downloader.py lines 221-226: the downloaded file is verified when a
\* hash is recorded
DM_Verify ==
    /\ fpc = "returned" /\ fetcher = "model_downloader"
    /\ LET v == VerifyAfterDownload(success, expected_hash, dest_file)
       IN  /\ fresult' = Str(v.ret)
           /\ fmsgs' = fmsgs \cup (IF success /\ expected_hash # <<>>
                                    THEN {"verifying_download"} ELSE {})
                             \cup (IF v.warn THEN {"corrupted"} ELSE {})
    /\ fpc' = "done"
    /\ UNCHANGED <<envVars, resolveVars, parseVars, packageVars, manifestVars, loadVars, expected_hash,
                   requests_loaded, served, dest_file, dest_file0, temp, net_requests,
                   success, fetcher, asset_url, api_key, same_volume, sent>>

\* download_models.py lines 247-254: the transport's return value is not
\* consulted; with a hash recorded dest_path is verified, and verify_hash
\* raises when dest_path does not exist
V_Verify ==
    /\ fpc = "returned" /\ fetcher = "download_models"
    /\ IF expected_hash = <<>>
       THEN fresult' = "ok" /\ fmsgs' = fmsgs
       ELSE IF ~dest_file.exists
       THEN fresult' = "error" /\ fmsgs' = fmsgs \cup {"error"}
       ELSE IF ~verify_hash(dest_file.data, expected_hash)
       THEN fresult' = "warned" /\ fmsgs' = fmsgs \cup {"corrupted"}
       ELSE fresult' = "ok" /\ fmsgs' = fmsgs
    /\ fpc' = "done"
    /\ UNCHANGED <<envVars, resolveVars, parseVars, packageVars, manifestVars, loadVars, expected_hash,
                   requests_loaded, served, dest_file, dest_file0, temp, net_requests,
                   success, fetcher, asset_url, api_key, same_volume, sent>>

NextFetch ==
    \/ DM_CheckExisting \/ V_CheckExisting
    \/ DL_Request \/ V_Request
    \/ DL_Chunk \/ DL_Move \/ DL_CopyChunk \/ Interrupt
    \/ DM_Verify \/ V_Verify

SpecFetch == InitFetch /\ [][NextFetch]_vars

\* The file found at dest_path carries the recorded hash, or none is recorded
ExistingFileAccepted ==
    dest_file0.exists /\ (expected_hash = <<>> \/ Md5Hex(dest_file0.data) = expected_hash)

\* C10: with a file at the destination whose fingerprint equals the recorded
\* one (or with no fingerprint recorded), download_model returns True, sends
\* no request and leaves the file as it was; with a file whose fingerprint
\* differs from the recorded one, a download is attempted.
C10_ExistingFileSkipsOrRedownloads ==
    fetcher = "model_downloader" =>
       /\ ExistingFileAccepted =>
             /\ net_requests = 0 /\ dest_file = dest_file0 /\ temp = NoFile
             /\ fpc \in {"start", "done"}
             /\ fpc = "done" => fresult = "True"
       /\ (fpc = "done" /\ dest_file0.exists /\ ~ExistingFileAccepted) => net_requests = 1

C10_Witness ==
    /\ fetcher = "model_downloader"
    /\ fpc = "done" /\ fresult = "True"
    /\ dest_file0.exists /\ expected_hash # <<>> /\ ExistingFileAccepted

\* C11: in every state of a fetch of model_downloader.py the file at the
\* destination is absent, or the file that was there before the fetch, or
\* the complete body of the download; never a part of a body.
C11_DestinationNeverPartial ==
    fetcher = "model_downloader" =>
        \/ dest_file = NoFile
        \/ dest_file = dest_file0
        \/ dest_file = File(served)

\* A download has completed and the file it left does not carry the
\* recorded hash
CorruptedDownload ==
    /\ fetcher = "model_downloader" /\ fpc = "done"
    /\ success /\ expected_hash # <<>>
    /\ Md5Hex(dest_file.data) # expected_hash

\* C12: when a download of download_model completes and the hash of the
\* downloaded file differs from the recorded one, the file stays at the
\* destination, the corruption warning is printed and download_model
\* returns False.
C12_CorruptedDownloadKeptAndFailed ==
    CorruptedDownload =>
        /\ dest_file = File(served)
        /\ "corrupted" \in fmsgs
        /\ fresult = "False"

C12_Witness ==
    CorruptedDownload /\ net_requests = 1 /\ fresult = "False" /\ dest_file.exists

\* C14: a request that goes to a host other than the gated host carries no
\* Authorization header, wherever else the gated host's name occurs in the
\* url.
C14_CredentialOnlyToGatedHost ==
    \A i \in DOMAIN sent : sent[i].host # GatedHost => sent[i].auth = NoHeader

\* C15: in both fetchers, an asset whose url is on the gated host is refused
\* when no key is available: no request is sent, the refusal is printed and
\* the transport reports failure.
C15_GatedHostRefusedWithoutKey ==
    (Host(asset_url) = GatedHost /\ api_key = None /\ fetcher \in Fetchers) =>
        /\ net_requests = 0
        /\ (fpc \in {"returned", "done"} /\ fmsgs \cap {"skip_hash_ok", "skip_exists"} = {})
              => ("refused" \in fmsgs /\ ~success)

----------------------------------------------------------------------------
(* model_downloader.py: download_models_from_config                         *)

\* At most this many entries in external_models
MaxAssets == 2

\* (mutant) a failed model is not counted
Tally_FailureUncounted(counts, ok) ==
    IF ok THEN [s |-> counts.s + 1, f |-> counts.f] ELSE counts

\* Lines 287-297: success_count += 1, or failure_count += 1
Tally(counts, ok) ==
    IF ok THEN [s |-> counts.s + 1, f |-> counts.f]
    ELSE [s |-> counts.s, f |-> counts.f + 1]

\* The entries of external_models: complete ones, with and without a hash,
\* and one that lacks the "url" field
ManifestEntries ==
    { [has_url |-> TRUE,  url |-> <<"https://", "hf.co", "/", "m">>,
       hash |-> Md5Hex(OriginalBody)],
      [has_url |-> TRUE,  url |-> <<"https://", "civitai.com", "/", "m">>, hash |-> <<>>],
      [has_url |-> FALSE, url |-> <<>>, hash |-> <<>>] }

InitManifest ==
    /\ os_name = "posix"
    /\ fs = {}
    /\ model_paths = _load_model_paths(NoOverlay, os_name)
    /\ IdleResolve
    /\ IdleParse
    /\ IdlePackage
    /\ IdleLoad
    /\ IdleFetch
    /\ config \in {[state |-> "unreadable", models |-> <<>>],
                   [state |-> "no_models", models |-> <<>>]}
                  \cup {[state |-> "ok", models |-> m] :
                           m \in SeqsUpTo(ManifestEntries, MaxAssets)}
    /\ mpc = "start"
    /\ mi = 0
    /\ success_count = 0
    /\ failure_count = 0
    /\ processed = <<>>
    /\ mret = "none"

\* Lines 250-275: the config is loaded; a file that cannot be read or parsed
\* returns False, one without external models returns True
M_Load ==
    /\ mpc = "start"
    /\ IF config.state = "unreadable" THEN mpc' = "returned" /\ mret' = "False" /\ mi' = mi
       ELSE IF config.state = "no_models" \/ config.models = <<>>
       THEN mpc' = "returned" /\ mret' = "True" /\ mi' = mi
       ELSE mpc' = "loop" /\ mret' = mret /\ mi' = 1
    /\ UNCHANGED <<envVars, resolveVars, parseVars, packageVars, fetchVars, loadVars,
                   config, success_count, failure_count, processed>>

\* Lines 278-294: the fields of models[mi] are read and download_model is
\* called; a missing field raises KeyError, counted as a failure (lines
\* 298-300).  What is on disk at dest_path and what the server delivers is
\* the environment's choice.
M_Begin ==
    /\ mpc = "loop" /\ mi <= Len(config.models) /\ fpc = "idle"
    /\ processed' = Append(processed, mi)
    /\ LET model == config.models[mi]
       IN  IF ~model.has_url
           THEN /\ failure_count' = failure_count + 1
                /\ mi' = mi + 1
                /\ UNCHANGED <<fetchVars, success_count>>
           ELSE /\ fetcher' = "model_downloader"
                /\ asset_url' = model.url
                /\ expected_hash' = model.hash
                /\ dest_file' \in {NoFile, File(OriginalBody)}
                /\ dest_file0' = dest_file'
                /\ served' \in {OriginalBody, <<"y">>}
                /\ requests_loaded' \in BOOLEAN
                /\ same_volume' \in BOOLEAN
                /\ api_key' = None
                /\ temp' = NoFile
                /\ fpc' = "start"
                /\ net_requests' = 0
                /\ success' = FALSE
                /\ fresult' = "none"
                /\ sent' = <<>>
                /\ fmsgs' = {}
                /\ UNCHANGED <<mi, success_count, failure_count>>
    /\ UNCHANGED <<envVars, resolveVars, parseVars, packageVars, loadVars,
                   config, mpc, mret>>

\* Lines 290-296: download_model has returned; its result is tallied
M_End ==
    /\ mpc = "loop" /\ fpc = "done"
    /\ LET counts == Tally([s |-> success_count, f |-> failure_count], fresult = "True")
       IN  success_count' = counts.s /\ failure_count' = counts.f
    /\ mi' = mi + 1
    /\ fpc' = "idle"
    /\ UNCHANGED <<envVars, resolveVars, parseVars, packageVars, loadVars,
                   config, mpc, mret, processed,
                   expected_hash, requests_loaded, served, dest_file, dest_file0, temp,
                   net_requests, success, fresult, fetcher, asset_url, api_key,
                   same_volume, sent, fmsgs>>

\* Lines 301-303: an exception leaves download_model (os.makedirs at line
\* 199, or a read inside verify_hash) and is counted as a failure
M_Except ==
    /\ mpc = "loop" /\ fpc \in {"start", "returned"}
    /\ LET counts == Tally([s |-> success_count, f |-> failure_count], FALSE)
       IN  success_count' = counts.s /\ failure_count' = counts.f
    /\ mi' = mi + 1
    /\ fpc' = "idle"
    /\ fresult' = "raised"
    /\ UNCHANGED <<envVars, resolveVars, parseVars, packageVars, loadVars,
                   config, mpc, mret, processed,
                   expected_hash, requests_loaded, served, dest_file, dest_file0, temp,
                   net_requests, success, fetcher, asset_url, api_key,
                   same_volume, sent, fmsgs>>

\* Lines 305-311: the summary, and `return failure_count == 0`
M_Return ==
    /\ mpc = "loop" /\ mi > Len(config.models) /\ fpc = "idle"
    /\ mpc' = "returned"
    /\ mret' = Str(failure_count = 0)
    /\ UNCHANGED <<envVars, resolveVars, parseVars, packageVars, fetchVars, loadVars,
                   config, mi, success_count, failure_count, processed>>

NextManifest ==
    \/ M_Load \/ M_Begin \/ M_End \/ M_Except \/ M_Return
    \/ DM_CheckExisting \/ DL_Request \/ DL_Chunk \/ DL_Move \/ DL_CopyChunk
    \/ Interrupt \/ DM_Verify

SpecManifest == InitManifest /\ [][NextManifest]_vars

\* C13: download_models_from_config over n external models runs the loop
\* body once for each model, in order, whatever happened to the earlier ones;
\* whenever no model is in progress the two counters add up to the number of
\* models processed, and the function returns True exactly when
\* failure_count is 0.
C13_EveryAssetTalliedOnce ==
    config.state = "ok" =>
        /\ processed = [i \in 1..Len(processed) |-> i]
        /\ (mpc = "loop" /\ fpc = "idle") =>
              /\ success_count + failure_count = Len(processed)
              /\ mi = Len(processed) + 1
        /\ mpc = "returned" =>
              /\ Len(processed) = Len(config.models)
              /\ success_count + failure_count = Len(config.models)
              /\ mret = Str(failure_count = 0)

C13_Witness ==
    /\ mpc = "returned" /\ config.state = "ok"
    /\ Len(config.models) = MaxAssets
    /\ ~config.models[1].has_url
    /\ failure_count >= 1 /\ success_count >= 1
    /\ mret = "False"

----------------------------------------------------------------------------
(* SpecLoad: _load_model_paths applied to every bounded overlay document    *)

\* At most this many (model_type, rel_path) items in a block
MaxItems == 2

OverlayItem(model_type, key_is_str, is_str, rel_path) ==
    [model_type |-> model_type, key_is_str |-> key_is_str, is_str |-> is_str,
     rel_path |-> rel_path]

\* checkpoints: ckpt / LLM: |\n  llm\n\n  gguf / 1: x / vae: 7
OverlayItems ==
    { OverlayItem("checkpoints", TRUE, TRUE, << <<"ckpt">> >>),
      OverlayItem("LLM", TRUE, TRUE, << <<"llm">>, <<>>, <<"gguf">> >>),
      OverlayItem("1", FALSE, TRUE, << <<"x">> >>),
      OverlayItem("vae", TRUE, FALSE, <<>>) }

OverlayBlock(is_dict, has_base, base_is_str, items) ==
    [is_dict |-> is_dict, has_base |-> has_base, base_is_str |-> base_is_str,
     base_path |-> <<"extra">>, items |-> items]

\* A section that is no mapping, one without base_path, one whose base_path
\* is a number, and the sections with a base_path and up to MaxItems items
OverlayBlocks ==
    { OverlayBlock(FALSE, FALSE, FALSE, <<>>),
      OverlayBlock(TRUE, FALSE, FALSE, << OverlayItem("checkpoints", TRUE, TRUE, << <<"ckpt">> >>) >>),
      OverlayBlock(TRUE, TRUE, FALSE, << OverlayItem("checkpoints", TRUE, TRUE, << <<"ckpt">> >>) >>) }
    \cup { OverlayBlock(TRUE, TRUE, TRUE, items) : items \in SeqsUpTo(OverlayItems, MaxItems) }

\* The documents: no file, an unreadable one, an empty one, one that is not
\* a mapping, and the mappings of one or two sections
LoadOverlays ==
    { [state |-> st, blocks |-> <<>>] : st \in {"absent", "unreadable", "empty", "not_mapping"} }
    \cup { [state |-> "blocks", blocks |-> <<b>>] : b \in OverlayBlocks }
    \cup { [state |-> "blocks", blocks |-> <<b1, b2>>] : b1 \in OverlayBlocks, b2 \in OverlayBlocks }

InitLoad ==
    /\ os_name \in Platforms
    /\ fs = {}
    /\ yaml_data \in LoadOverlays
    /\ loaded = FALSE
    /\ model_paths = DefaultModelPaths
    /\ IdleResolve
    /\ IdleParse
    /\ IdlePackage
    /\ IdleFetch
    /\ IdleManifest

\* Lines 57-95: the overlay is applied to the defaults and the index returned
Load ==
    /\ ~loaded
    /\ model_paths' = _load_model_paths(yaml_data, os_name)
    /\ loaded' = TRUE
    /\ UNCHANGED <<os_name, fs, resolveVars, parseVars, packageVars, fetchVars,
                   manifestVars, yaml_data>>

NextLoad == Load

SpecLoad == InitLoad /\ [][NextLoad]_vars

\* No base_path and no key of the document makes the walk raise
NothingRaises ==
    \A i \in DOMAIN yaml_data.blocks :
        LET b == yaml_data.blocks[i]
        IN  (b.is_dict /\ b.has_base) =>
               /\ b.base_is_str
               /\ \A j \in DOMAIN b.items : b.items[j].key_is_str

\* The (kind, path) pairs the document names, for known kinds
NamedRoots ==
    UNION { UNION { { <<b.items[j].model_type,
                        Join(Components(b.base_path, os_name), p, os_name)>> :
                      p \in Range(PathsOf(b.items[j].rel_path)) } :
                    j \in { n \in DOMAIN b.items :
                              /\ b.items[n].is_str
                              /\ b.items[n].model_type \in Range(KnownKinds) } } :
            b \in { c \in Range(yaml_data.blocks) : c.is_dict /\ c.has_base } }

\* C16: every path the overlay names for a known kind K, whatever K's letter
\* case, is in the candidate list of K itself, after the default root of K.
C16_OverlayAppendedToNamedKind ==
    (loaded /\ yaml_data.state = "blocks" /\ NothingRaises) =>
        \A kp \in NamedRoots :
            /\ model_paths.roots[kp[1]][1] = DefaultRoot(kp[1])
            /\ kp[2] \in Range(Tail(model_paths.roots[kp[1]]))

\* C17: whatever the overlay holds, the index _load_model_paths returns has,
\* for every known kind K, the default root <root>/models/K as the first
\* element of K's list.
C17_DefaultsAlwaysFirst ==
    loaded =>
        \A i \in DOMAIN KnownKinds :
            /\ KnownKinds[i] \in DOMAIN model_paths.roots
            /\ model_paths.roots[KnownKinds[i]] # <<>>
            /\ model_paths.roots[KnownKinds[i]][1] = DefaultRoot(KnownKinds[i])

\* An error is raised in the second section, after the first one has added
\* a root for checkpoints
C17_Witness ==
    /\ loaded /\ yaml_data.state = "blocks" /\ ~NothingRaises
    /\ Len(model_paths.roots["checkpoints"]) > 1
    /\ Len(yaml_data.blocks) > 1

----------------------------------------------------------------------------
(* Further properties of SpecParse and SpecResolve                          *)

\* C18: after _get_custom_node_packages, the registry maps the lower-cased
\* name of every directory of the listing to the path of that directory,
\* whatever identifiers the other packages declare and whatever the order of
\* the listing.
C18_OwnNameMapsToOwnPath ==
    result.status # "pending" =>
        \A i \in DOMAIN packages :
            /\ Lower(packages[i].dir) \in DOMAIN Registry
            /\ Registry[Lower(packages[i].dir)] = PackagePath(packages[i].dir)

\* The candidate roots of the query's kind that hold root/basename(N), for a
\* name N that holds a path separator
BasenameRoots ==
    IF rq.kind \notin DOMAIN model_paths.roots \/ OsSep(os_name) \notin Range(rq.name) THEN {}
    ELSE {i \in DOMAIN model_paths.roots[rq.kind] :
             Exists(Join(model_paths.roots[rq.kind][i], Basename(rq.name, os_name), os_name),
                    fs, os_name)}

\* C20: the three steps are phases over the whole list of candidate roots: a
\* direct hit root/N in any root wins over a basename hit in any root, a
\* basename hit wins over the walk, and the walk's result is returned only
\* when no root has a direct or a basename hit.
C20_StepsArePhasesOverAllRoots ==
    rres.done =>
        /\ DirectRoots # {} =>
              \E i \in DirectRoots :
                  rres.path = Join(model_paths.roots[rq.kind][i], rq.name, os_name)
        /\ (DirectRoots = {} /\ BasenameRoots # {}) =>
              \E i \in BasenameRoots :
                  rres.path = Join(model_paths.roots[rq.kind][i],
                                   Basename(rq.name, os_name), os_name)

----------------------------------------------------------------------------
(* Further properties of SpecFetch                                          *)

\* C21: in download_model the downloaded data is verified before it is moved
\* to the destination path: whenever the destination has been written by a
\* download of an asset with a recorded hash, the verification of that
\* download has already been made.
C21_VerifiedBeforeMoved ==
    ( /\ fetcher = "model_downloader" /\ expected_hash # <<>>
      /\ sent # <<>> /\ dest_file # dest_file0 )
    => "verifying_download" \in fmsgs

\* C22: when the transport download_model tries first fails, the other
\* transport is tried once for the same asset before download_model returns
\* False.
C22_FallbackTransportTriedOnce ==
    ( /\ fetcher = "model_downloader" /\ fpc = "done"
      /\ sent # <<>> /\ ~success )
    => /\ Len(sent) = 2
       /\ sent[2].via # sent[1].via

\* C23: in download_models.py a response with a non-success status never
\* puts a file at the destination path nor replaces the one that is there.
C23_BadStatusNeverReachesDestination ==
    ( /\ fetcher = "download_models"
      /\ \E i \in DOMAIN sent : sent[i].answer = "bad_status" )
    => dest_file = dest_file0

----------------------------------------------------------------------------
(* SpecScan: parse_workflow over the node types and file names that the     *)
(* two keyword tables tell apart                                            *)

VAELoader  == <<"VAE", "Load", "er">>
LoraLoader == <<"Lora", "Load", "er">>

\* A node type that holds no keyword of type_mapping
OtherType == <<"other">>

LoraFile == <<"lora", ".safetensors">>
VaeFile  == <<"vae", ".safetensors">>

ScanNodeSet ==
    { ModelNode(CheckpointLoaderSimple, <<FileA>>),
      ModelNode(VAELoader, <<VaeFile>>),
      ModelNode(LoraLoader, <<LoraFile>>),
      ModelNode(OtherType, <<LoraFile, VaeFile>>),
      ModelNode(OtherType, <<VaeFile, FileA>>),
      ModelNode(NonStr, <<FileA>>) }

InitScan ==
    /\ os_name \in Platforms
    /\ model_paths = _load_model_paths(NoOverlay, os_name)
    /\ fs \in { {},
                { DefaultRoot(k) \o <<f>> : k \in {"checkpoints", "vae", "loras"},
                                            f \in {FileA, VaeFile, LoraFile} } }
    /\ workflow \in Documents(ScanNodeSet, MaxNodes)
    /\ packages = <<>>
    /\ result = PendingResult
    /\ IdleResolve
    /\ IdlePackage
    /\ IdleFetch
    /\ IdleManifest
    /\ IdleLoad

NextScan == ParseWorkflow

SpecScan == InitScan /\ [][NextScan]_vars

\* The kind of the first entry of type_mapping, in the order of the dict
\* literal, whose key is a substring of the lower-cased node type
FirstKeywordKind(node_type) ==
    LET matching == {i \in DOMAIN type_mapping :
                        IsSubstring(type_mapping[i].key, Lower(node_type))}
    IN  IF matching = {} THEN NoKind
        ELSE type_mapping[CHOOSE i \in matching : \A j \in matching : i <= j].kind

\* C24: _guess_model_type returns the kind of the first entry of the table,
\* in declaration order, whose keyword is in the lower-cased node type, and
\* no kind when there is none; a CheckpointLoaderSimple node with the value
\* a.safetensors, the file being at models/checkpoints, is listed under
\* checkpoints with that path.
C24_FirstKeywordWins ==
    result.status = "returned" =>
        /\ \A i \in DOMAIN workflow.nodes :
              workflow.nodes[i].type \in {CheckpointLoaderSimple, VAELoader, LoraLoader,
                                          LoraStack, OtherType} =>
                 _guess_model_type(workflow.nodes[i].type)
                    = FirstKeywordKind(workflow.nodes[i].type)
        /\ ( /\ result.status = "returned" /\ ~result.error
            /\ ModelNode(CheckpointLoaderSimple, <<FileA>>) \in Range(workflow.nodes)
            /\ DefaultRoot("checkpoints") \o <<FileA>> \in fs ) =>
              [name |-> FileA, path |-> DefaultRoot("checkpoints") \o <<FileA>>,
               is_pair |-> TRUE] \in Range(result.models["checkpoints"])

C24_Witness ==
    /\ result.status = "returned" /\ ~result.error
    /\ ModelNode(CheckpointLoaderSimple, <<FileA>>) \in Range(workflow.nodes)
    /\ DefaultRoot("checkpoints") \o <<FileA>> \in fs
    /\ ModelNode(VAELoader, <<VaeFile>>) \in Range(workflow.nodes)
    /\ Len(result.models["checkpoints"]) >= 2

\* C25: in a node whose type holds no keyword, every model-like value is
\* recorded under the kind its own file name indicates, whatever the other
\* values of the node.
C25_KindPerValue ==
    (result.status = "returned" /\ Scanned) =>
        \A i \in DOMAIN workflow.nodes :
            LET node == workflow.nodes[i]
            IN  (node.type # NonStr /\ _guess_model_type(node.type) = NoKind) =>
                   \A j \in DOMAIN node.widgets :
                       node.widgets[j] \in
                          Range(ScanWorkflow(workflow, model_paths)
                                   .models[_guess_model_type_from_filename(node.widgets[j])])

\* C26: every entry of every list of result['models'] is a (name, path)
\* pair, also in a result returned after an exception.
C26_ResultHoldsPairsOnly ==
    result.status = "returned" =>
        \A k \in DOMAIN result.models :
            \A i \in DOMAIN result.models[k] : result.models[k][i].is_pair

\* C27: a node type that holds `vae` is of kind vae and one that holds `lora`
\* of kind loras, also when the type holds `load`.
C27_VaeAndLoraLoadersClassified ==
    result.status = "returned" =>
        \A i \in DOMAIN workflow.nodes :
            /\ workflow.nodes[i].type = VAELoader
                  => _guess_model_type(workflow.nodes[i].type) = "vae"
            /\ workflow.nodes[i].type = LoraLoader
                  => _guess_model_type(workflow.nodes[i].type) = "loras"

\* C29: parse_workflow lists each (kind, reference) at most once.
C29_EachReferenceListedOnce ==
    result.status = "returned" =>
        \A k \in DOMAIN result.models :
            \A i, j \in DOMAIN result.models[k] :
                result.models[k][i].name = result.models[k][j].name => i = j

----------------------------------------------------------------------------
(* Placement of one resource by create_package and by                       *)
(* model_downloader.download_models_from_config                             *)

\* model_downloader.py lines 287-294: dest_path of one entry of
\* external_models, relative to base_dir; ensure_models_directory gives
\* base_dir/models
FetchDestPath(model, os) ==
    LET path_component == model.path
        by_type  == << <<"models">>, <<model.type>> >>
        path_dir == IF path_component # <<>> THEN Dirname(path_component, os) ELSE <<>>
        dest_dir == IF path_component # <<>> /\ path_dir # <<>>
                    THEN Join(by_type, path_dir, os)
                    ELSE by_type
    IN  Join(dest_dir,
             IF path_component # <<>> THEN Basename(path_component, os) ELSE model.name,
             os)

\* C28: the path at which create_package copies a resource of kind K and
\* reference N when it embeds it equals the path at which model_downloader
\* puts the same resource from the entry that create_package records when it
\* externalizes it.
C28_EmbedAndFetchAgreeOnPlacement ==
    \A i \in DOMAIN log :
        log[i].msg = "external" =>
            \A j \in DOMAIN external_models :
                LET m == external_models[j]
                IN  ( /\ m.type = log[i].kind
                      /\ m.name = Basename(log[i].name, os_name)
                      /\ m.path \in {<<>>, log[i].name} )
                    => DestPath(log[i].kind, log[i].name, os_name)
                          = FetchDestPath(m, os_name)

====
